---- MODULE Spec2Model ----
(***************************************************************************)
(* Client records, the sequential client counter and the tax-ID uniqueness *)
(* index of jps-master-control, as kept in the document store by the       *)
(* callable functions upsertClient / deleteClient (transactional version)  *)
(* and by the non-transactional upsertClient / deleteClient and the web    *)
(* client's save().                                                        *)
(*                                                                         *)
(* Strings are sequences of one-character strings so that trimming,        *)
(* upper-casing and the "/" replacement are computed, not assumed.         *)
(* A document snapshot is a set: {} when the document does not exist,      *)
(* {data} when it does.                                                    *)
(***************************************************************************)
EXTENDS Integers, Sequences, FiniteSets, TLC

\* ---------------------------------------------------------------- bounds
MaxDocs == 2
MaxAttempts == 2
MaxBookings == 2
MaxItems == 2
MaxEvents == 2
MaxQuantity == 2

\* ------------------------------------------------------------- constants
Base == 100000

\* Two concurrent callers, and one caller whose calls run one at a time.
Concurrent == {"p1", "p2"}
Sequential == {"p0"}
Procs == Concurrent \cup Sequential
DocIds == 1..MaxDocs

\* Raw tax IDs and legal names a caller may send.
TaxInputs == { <<>>, <<"a">>, <<"A", " ">>, <<"/">> }
LegalInputs == { <<>>, <<"n">> }

VARIABLES db, procs, usedIds, allocated, written, ui

vars == <<db, procs, usedIds, allocated, written, ui>>

clients == db.clients
counters == db.counters
unique_taxIds == db.unique_taxIds

\* ------------------------------------------------------- string helpers
IsSpace(c) == c = " "

RECURSIVE TrimLeft(_)
TrimLeft(s) ==
  IF s # <<>> /\ IsSpace(Head(s)) THEN TrimLeft(Tail(s)) ELSE s

RECURSIVE TrimRight(_)
TrimRight(s) ==
  IF s # <<>> /\ IsSpace(s[Len(s)]) THEN TrimRight(SubSeq(s, 1, Len(s) - 1)) ELSE s

UpperChar(c) == IF c = "a" THEN "A" ELSE IF c = "n" THEN "N" ELSE c

\* const toStr = (v) => (v ?? "").toString().trim();  v is a snapshot set:
\* {} stands for undefined.
toStr(v) == IF v = {} THEN <<>> ELSE TrimRight(TrimLeft(CHOOSE x \in v : TRUE))

up(v) == [i \in 1..Len(toStr(v)) |-> UpperChar(toStr(v)[i])]

keyify(s) == [i \in 1..Len(up(s)) |-> IF up(s)[i] = "/" THEN "_" ELSE up(s)[i]]

\* payload.f, undefined when the request omits the field
Field(payload, f) == IF f \in DOMAIN payload THEN {payload[f]} ELSE {}

\* ------------------------------------------------------ the document store
EmptyColl == [k \in {} |-> {}]

Get(d, coll, key) == IF key \in DOMAIN d[coll] THEN {d[coll][key]} ELSE {}

Overlay(new, old) ==
  [f \in DOMAIN new \cup DOMAIN old |-> IF f \in DOMAIN new THEN new[f] ELSE old[f]]

Put(d, coll, key, data) ==
  [d EXCEPT ![coll] = [k \in DOMAIN d[coll] \cup {key} |->
                          IF k = key THEN data ELSE d[coll][k]]]

\* One staged write applied to the store.
ApplyWrite(d, w) ==
  CASE w.op = "set" -> Put(d, w.coll, w.key, w.data)
    [] w.op = "merge" ->
         Put(d, w.coll, w.key,
             IF w.key \in DOMAIN d[w.coll] THEN Overlay(w.data, d[w.coll][w.key])
                                           ELSE w.data)
    [] w.op = "update" -> Put(d, w.coll, w.key, Overlay(w.data, d[w.coll][w.key]))
    [] w.op = "delete" ->
         [d EXCEPT ![w.coll] = [k \in DOMAIN d[w.coll] \ {w.key} |-> d[w.coll][k]]]

RECURSIVE ApplyWrites(_, _)
ApplyWrites(d, ws) ==
  IF ws = <<>> THEN d ELSE ApplyWrites(ApplyWrite(d, Head(ws)), Tail(ws))

Write(op, coll, key, data) == [op |-> op, coll |-> coll, key |-> key, data |-> data]
Read(d, coll, key) == [coll |-> coll, key |-> key, snap |-> Get(d, coll, key)]

\* A transaction handle: the documents read, the write batch, the value
\* returned or the error thrown by the update function.
NoTx == [reads |-> {}, writes |-> <<>>, err |-> "", ret |-> {}]

\* tx.get(ref): the storage layer rejects a read issued after a write has
\* been staged on the same transaction.
TxGet(tx, d, coll, key) ==
  IF tx.err # "" THEN tx
  ELSE IF tx.writes # <<>> THEN [tx EXCEPT !.err = "read-after-write"]
  ELSE [tx EXCEPT !.reads = @ \cup {Read(d, coll, key)}]

TxWrite(tx, w) == IF tx.err # "" THEN tx ELSE [tx EXCEPT !.writes = Append(@, w)]

TxThrow(tx, e) == IF tx.err # "" THEN tx ELSE [tx EXCEPT !.err = e]

TxReturn(tx, v) == IF tx.err # "" THEN tx ELSE [tx EXCEPT !.ret = {v}]

\* A committed write to a document invalidates every pending transaction
\* that has read the document: its commit will be refused.
Touches(tx, ws) ==
  \E r \in tx.reads : \E n \in 1..Len(ws) : ws[n].coll = r.coll /\ ws[n].key = r.key

Invalidate(pr, ws) ==
  IF pr.pc = "commit" /\ Touches(pr.tx, ws)
    THEN [pr EXCEPT !.tx = NoTx, !.invalidated = TRUE] ELSE pr

\* The reads of a pending transaction are still current.
ReadsValid(pr) == ~pr.invalidated

The(S) == CHOOSE x \in S : TRUE

\* `CL-${next}`
ClientIdOf(n) == <<"CL-", n>>

\* ---------------------------------------- upsertClient, transactional version
\* cleanClient(payload): the fields the model follows.
cleanClient(payload) ==
  [ legalName |-> toStr(Field(payload, "legalName")),
    taxId |-> toStr(Field(payload, "taxId")),
    vatRegistered |-> (Field(payload, "vatRegistered") = {TRUE}) ]

\* const clean = {...} of the second version: the fields the model follows.
cleanClientV0(payload) ==
  [ legalName |-> toStr(Field(payload, "legalName")),
    taxId |-> toStr(Field(payload, "taxId")),
    vatRegistered |-> (Field(payload, "vatRegistered") = {TRUE}) ]

validateClientNameOnly(c) ==
  (IF c.legalName = <<>> THEN {"legalName"} ELSE {})

\* validateClient(c): the names of the fields in error.
validateClient(c) ==
  (IF c.legalName = <<>> THEN {"legalName"} ELSE {})
    \cup (IF c.vatRegistered /\ c.taxId = <<>> THEN {"taxId"} ELSE {})

\* The edit branch without the owner check on the index entry.
UpsertEditTxNoOwnerCheck(d, id, clean) ==
  LET newTaxKey == keyify({clean.taxId})
      t1 == TxGet(NoTx, d, "clients", id)
      snap == Get(d, "clients", id)
      prevTaxKey == keyify(Field(The(snap), "taxId"))
      u1 == TxGet(t1, d, "unique_taxIds", newTaxKey)
      u2 == TxWrite(u1, Write("merge", "unique_taxIds", newTaxKey, [clientId |-> id]))
      t2 == IF newTaxKey # <<>> THEN u2 ELSE t1
      t3 == IF prevTaxKey # <<>>
              THEN TxWrite(t2, Write("delete", "unique_taxIds", prevTaxKey, <<>>))
              ELSE t2
      t4 == IF newTaxKey # prevTaxKey THEN t3 ELSE t1
      t5 == TxWrite(t4, Write("update", "clients", id, clean))
  IN IF snap = {} THEN TxThrow(t1, "not-found") ELSE TxReturn(t5, id)

\* The edit branch writing the record with set instead of update.
UpsertEditTxSet(d, id, clean) ==
  LET newTaxKey == keyify({clean.taxId})
      t1 == TxGet(NoTx, d, "clients", id)
      snap == Get(d, "clients", id)
      prevTaxKey == keyify(Field(The(snap), "taxId"))
      u1 == TxGet(t1, d, "unique_taxIds", newTaxKey)
      uSnap == Get(d, "unique_taxIds", newTaxKey)
      u2 == IF uSnap # {} /\ The(uSnap).clientId # id
              THEN TxThrow(u1, "already-exists")
              ELSE TxWrite(u1, Write("merge", "unique_taxIds", newTaxKey, [clientId |-> id]))
      t2 == IF newTaxKey # <<>> THEN u2 ELSE t1
      t3 == IF prevTaxKey # <<>>
              THEN TxWrite(t2, Write("delete", "unique_taxIds", prevTaxKey, <<>>))
              ELSE t2
      t4 == IF newTaxKey # prevTaxKey THEN t3 ELSE t1
      t5 == TxWrite(t4, Write("set", "clients", id, clean))
  IN IF snap = {} THEN TxThrow(t1, "not-found") ELSE TxReturn(t5, id)

\* The edit branch that leaves the entry of the previous key in place.
UpsertEditTxKeepOld(d, id, clean) ==
  LET newTaxKey == keyify({clean.taxId})
      t1 == TxGet(NoTx, d, "clients", id)
      snap == Get(d, "clients", id)
      prevTaxKey == keyify(Field(The(snap), "taxId"))
      u1 == TxGet(t1, d, "unique_taxIds", newTaxKey)
      uSnap == Get(d, "unique_taxIds", newTaxKey)
      u2 == IF uSnap # {} /\ The(uSnap).clientId # id
              THEN TxThrow(u1, "already-exists")
              ELSE TxWrite(u1, Write("merge", "unique_taxIds", newTaxKey, [clientId |-> id]))
      t2 == IF newTaxKey # <<>> THEN u2 ELSE t1
      t4 == IF newTaxKey # prevTaxKey THEN t2 ELSE t1
      t5 == TxWrite(t4, Write("update", "clients", id, clean))
  IN IF snap = {} THEN TxThrow(t1, "not-found") ELSE TxReturn(t5, id)

\* The edit branch that maintains the index whether or not the key changed.
UpsertEditTxAlwaysIndex(d, id, clean) ==
  LET newTaxKey == keyify({clean.taxId})
      t1 == TxGet(NoTx, d, "clients", id)
      snap == Get(d, "clients", id)
      prevTaxKey == keyify(Field(The(snap), "taxId"))
      u1 == TxGet(t1, d, "unique_taxIds", newTaxKey)
      uSnap == Get(d, "unique_taxIds", newTaxKey)
      u2 == IF uSnap # {} /\ The(uSnap).clientId # id
              THEN TxThrow(u1, "already-exists")
              ELSE TxWrite(u1, Write("merge", "unique_taxIds", newTaxKey, [clientId |-> id]))
      t2 == IF newTaxKey # <<>> THEN u2 ELSE t1
      t3 == IF prevTaxKey # <<>> /\ prevTaxKey # newTaxKey
              THEN TxWrite(t2, Write("delete", "unique_taxIds", prevTaxKey, <<>>))
              ELSE t2
      t5 == TxWrite(t3, Write("update", "clients", id, clean))
  IN IF snap = {} THEN TxThrow(t1, "not-found") ELSE TxReturn(t5, id)

\* The edit branch of the update function.
UpsertEditTx(d, id, clean) ==
  LET newTaxKey == keyify({clean.taxId})
      t1 == TxGet(NoTx, d, "clients", id)
      snap == Get(d, "clients", id)
      prevTaxKey == keyify(Field(The(snap), "taxId"))
      u1 == TxGet(t1, d, "unique_taxIds", newTaxKey)
      uSnap == Get(d, "unique_taxIds", newTaxKey)
      u2 == IF uSnap # {} /\ The(uSnap).clientId # id
              THEN TxThrow(u1, "already-exists")
              ELSE TxWrite(u1, Write("merge", "unique_taxIds", newTaxKey, [clientId |-> id]))
      t2 == IF newTaxKey # <<>> THEN u2 ELSE t1
      t3 == IF prevTaxKey # <<>>
              THEN TxWrite(t2, Write("delete", "unique_taxIds", prevTaxKey, <<>>))
              ELSE t2
      t4 == IF newTaxKey # prevTaxKey THEN t3 ELSE t1
      t5 == TxWrite(t4, Write("update", "clients", id, clean))
  IN IF snap = {} THEN TxThrow(t1, "not-found") ELSE TxReturn(t5, id)

\* The create branch that advances the counter and stages no client record.
UpsertCreateTxNoRecord(d, newId, clean) ==
  LET newTaxKey == keyify({clean.taxId})
      t1 == TxGet(NoTx, d, "counters", "client")
      cSnap == Get(d, "counters", "client")
      current == IF cSnap # {} /\ "current_value" \in DOMAIN The(cSnap)
                   THEN The(cSnap).current_value ELSE Base
      next == current + 1
      t2 == TxWrite(t1, Write("merge", "counters", "client", [current_value |-> next]))
      u1 == TxGet(t2, d, "unique_taxIds", newTaxKey)
      uSnap == Get(d, "unique_taxIds", newTaxKey)
      u2 == IF uSnap # {}
              THEN TxThrow(u1, "already-exists")
              ELSE TxWrite(u1, Write("set", "unique_taxIds", newTaxKey, [clientId |-> newId]))
      t3 == IF newTaxKey # <<>> THEN u2 ELSE t2
  IN TxReturn(t3, newId)

UpsertCreateTxCurrent(d, newId, clean) ==
  LET newTaxKey == keyify({clean.taxId})
      t1 == TxGet(NoTx, d, "counters", "client")
      cSnap == Get(d, "counters", "client")
      current == IF cSnap # {} /\ "current_value" \in DOMAIN The(cSnap)
                   THEN The(cSnap).current_value ELSE Base
      next == current + 1
      t2 == TxWrite(t1, Write("merge", "counters", "client", [current_value |-> next]))
      u1 == TxGet(t2, d, "unique_taxIds", newTaxKey)
      uSnap == Get(d, "unique_taxIds", newTaxKey)
      u2 == IF uSnap # {}
              THEN TxThrow(u1, "already-exists")
              ELSE TxWrite(u1, Write("set", "unique_taxIds", newTaxKey, [clientId |-> newId]))
      t3 == IF newTaxKey # <<>> THEN u2 ELSE t2
      t4 == TxWrite(t3, Write("set", "clients", newId,
                              Overlay([clientId |-> ClientIdOf(current)], clean)))
  IN TxReturn(t4, newId)

\* The create branch of the update function; newId is clientRef.id.
UpsertCreateTx(d, newId, clean) ==
  LET newTaxKey == keyify({clean.taxId})
      t1 == TxGet(NoTx, d, "counters", "client")
      cSnap == Get(d, "counters", "client")
      current == IF cSnap # {} /\ "current_value" \in DOMAIN The(cSnap)
                   THEN The(cSnap).current_value ELSE Base
      next == current + 1
      t2 == TxWrite(t1, Write("merge", "counters", "client", [current_value |-> next]))
      u1 == TxGet(t2, d, "unique_taxIds", newTaxKey)
      uSnap == Get(d, "unique_taxIds", newTaxKey)
      u2 == IF uSnap # {}
              THEN TxThrow(u1, "already-exists")
              ELSE TxWrite(u1, Write("set", "unique_taxIds", newTaxKey, [clientId |-> newId]))
      t3 == IF newTaxKey # <<>> THEN u2 ELSE t2
      t4 == TxWrite(t3, Write("set", "clients", newId,
                              Overlay([clientId |-> ClientIdOf(next)], clean)))
  IN TxReturn(t4, newId)

UpsertClientTx(d, editingId, newId, clean) ==
  IF editingId # {} THEN UpsertEditTx(d, The(editingId), clean)
                    ELSE UpsertCreateTx(d, newId, clean)

\* deleteClient's update function without the delete of the index entry.
DeleteClientTxKeepIndex(d, id) ==
  LET t1 == TxGet(NoTx, d, "clients", id)
      snap == Get(d, "clients", id)
      t3 == TxWrite(t1, Write("delete", "clients", id, <<>>))
  IN IF snap = {} THEN TxThrow(t1, "not-found") ELSE TxReturn(t3, id)

\* The update function of deleteClient.
DeleteClientTx(d, id) ==
  LET t1 == TxGet(NoTx, d, "clients", id)
      snap == Get(d, "clients", id)
      taxKey == keyify(Field(The(snap), "taxId"))
      t2 == IF taxKey # <<>>
              THEN TxWrite(t1, Write("delete", "unique_taxIds", taxKey, <<>>))
              ELSE t1
      t3 == TxWrite(t2, Write("delete", "clients", id, <<>>))
  IN IF snap = {} THEN TxThrow(t1, "not-found") ELSE TxReturn(t3, id)

\* catch (err): an HttpsError is rethrown, anything else becomes "internal".
HttpsErrors == {"unauthenticated", "invalid-argument", "failed-precondition",
                "already-exists", "not-found", "internal"}
Surface(err) == IF err \in HttpsErrors THEN err ELSE "internal"

\* --------------------------- upsertClient / deleteClient, functions/src/index.ts
\* The counter transaction writing back the value it read.
AllocateTxStale(d) ==
  LET t1 == TxGet(NoTx, d, "counters", "client")
      snap == Get(d, "counters", "client")
      current == IF snap # {} /\ "current_value" \in DOMAIN The(snap)
                   THEN The(snap).current_value ELSE Base
      next == current + 1
      t2 == TxWrite(t1, Write("merge", "counters", "client", [current_value |-> current]))
  IN TxReturn(t2, ClientIdOf(next))

\* The counter transaction of the create path (also the one of the web
\* client's save()); it returns `CL-${next}`.
AllocateTx(d) ==
  LET t1 == TxGet(NoTx, d, "counters", "client")
      snap == Get(d, "counters", "client")
      current == IF snap # {} /\ "current_value" \in DOMAIN The(snap)
                   THEN The(snap).current_value ELSE Base
      next == current + 1
      t2 == TxWrite(t1, Write("merge", "counters", "client", [current_value |-> next]))
  IN TxReturn(t2, ClientIdOf(next))

\* validateClient(input) of functions/src/index.ts
validateClientV1(input) ==
  (IF toStr(Field(input, "legalName")) = <<>> THEN {"legalName"} ELSE {})
    \cup (IF Field(input, "vatRegistered") = {TRUE} /\ toStr(Field(input, "taxId")) = <<>>
            THEN {"taxId"} ELSE {})

\* String(v || "")
StringOr(v) == IF v = {} THEN <<>> ELSE The(v)

\* The payload written by upsertClient of functions/src/index.ts.
payloadV1(client) ==
  [ legalName |-> StringOr(Field(client, "legalName")),
    taxId |-> StringOr(Field(client, "taxId")),
    vatRegistered |-> (Field(client, "vatRegistered") = {TRUE}) ]

\* The payload written by the web client's save().
payloadWeb(form) ==
  [ legalName |-> toStr(Field(form, "legalName")),
    taxId |-> StringOr(Field(form, "taxId")) ]

\* ----------------------------------------------------------------- inventory
\* The Inventory page of the web client (web/src/App.tsx).
ItemIds == 1..MaxItems
EventIds == 1..MaxEvents

\* A value of its own for the number NaN.
NaN == 1000000

\* Number(e.target.value) of the quantity inputs.
DeltaInputs == {-1, 0, 1, NaN}
QuantityInputs == {0, 1, NaN}

ItemForms == [name : LegalInputs, quantity : QuantityInputs]

\* The forms with a finite quantity, one of them without a name.
ItemFormsPlain == {f \in ItemForms : f.quantity # NaN /\ (f.name = <<>> => f.quantity = 0)}

\* payload of save(): the name trimmed, the quantity if it is finite.
itemPayload(form) ==
  [name |-> toStr({form.name}),
   quantity |-> IF form.quantity = NaN THEN 0 ELSE form.quantity]

\* v || 0
OrZero(v) == IF v = {} \/ v = {0} \/ v = {NaN} THEN 0 ELSE The(v)

\* Number(delta[itemId] || 0)
Amount(deltas, itemId) == OrZero(Get([delta |-> deltas], "delta", itemId))

skipDeltaNaNOnly(amt) == amt = NaN

\* !amt || !Number.isFinite(amt)
skipDelta(amt) == amt = 0 \/ amt = NaN

ApplyDeltaTxNoRead(d, itemId, amt) ==
  LET snap == Get(d, "inventoryItems", itemId)
      cur == OrZero(Field(The(snap), "quantity"))
      next == cur + amt
  IN IF snap = {} THEN NoTx
     ELSE TxWrite(NoTx, Write("update", "inventoryItems", itemId, [quantity |-> next]))

\* The update function of applyDelta.
ApplyDeltaTx(d, itemId, amt) ==
  LET t1 == TxGet(NoTx, d, "inventoryItems", itemId)
      snap == Get(d, "inventoryItems", itemId)
      cur == OrZero(Field(The(snap), "quantity"))
      next == cur + amt
  IN IF snap = {} THEN t1
     ELSE TxWrite(t1, Write("update", "inventoryItems", itemId, [quantity |-> next]))

\* ------------------------------------------------------------- processes
Idle == [pc |-> "idle", op |-> "", editingId |-> {}, payload |-> <<>>,
         clean |-> <<>>, newId |-> 0, tx |-> NoTx, invalidated |-> FALSE,
         attempts |-> 0, result |-> "", note |-> ""]

Ready(p) == procs[p].pc \in {"idle", "done"}

\* What kind of call a finished call was.
Note(pr, tx) ==
  LET snaps == {r.snap : r \in {x \in tx.reads : x.coll = "clients"}}
      prevKey == keyify(Field(The(The(snaps)), "taxId"))
      newKey == keyify({pr.clean.taxId})
  IN IF pr.op = "applyDelta" THEN "adjust"
     ELSE IF pr.op = "deleteClient" THEN "delete"
     ELSE IF pr.editingId = {} THEN "create"
     ELSE IF snaps = {} \/ The(snaps) = {} THEN "edit"
     ELSE IF newKey = prevKey /\ newKey # <<>> THEN "edit-samekey"
     ELSE IF newKey # <<>> /\ prevKey # <<>> THEN "edit-rekey"
     ELSE "edit"

\* The call returns or throws: r is "ok" or the error kind.  The sequential
\* caller's record keeps what the call was given and what its transaction
\* read and staged; a concurrent caller's record keeps the outcome, and the
\* kind of call for a commit and for a create.
Done(p, op, r) ==
  [Idle EXCEPT !.pc = "done", !.op = IF p \in Sequential THEN op ELSE "", !.result = r]

DoneTx(p, pr, tx, r) ==
  IF p \in Sequential
    THEN [pr EXCEPT !.pc = "done", !.tx = tx, !.result = r, !.newId = 0,
                    !.attempts = 0, !.note = Note(pr, tx)]
    ELSE [Done(p, pr.op, r) EXCEPT
            !.note = IF r = "ok" \/ pr.editingId = {} THEN Note(pr, tx) ELSE ""]

\* The same for a call that is one plain write.
DoneWrite(p, op, r, id, data, note) ==
  IF p \in Sequential
    THEN [Done(p, op, r) EXCEPT !.editingId = id, !.clean = data, !.note = note]
    ELSE [Done(p, op, r) EXCEPT !.note = note]

Payloads ==
  { Overlay(l, Overlay(t, v)) :
      l \in {[legalName |-> x] : x \in LegalInputs},
      t \in {EmptyColl} \cup {[taxId |-> x] : x \in TaxInputs},
      v \in {EmptyColl, [vatRegistered |-> TRUE]} }

\* The payloads of the concurrent callers: one tax key in two spellings, or
\* two tax keys.
PayloadsSpellings ==
  {p \in Payloads : "vatRegistered" \notin DOMAIN p /\ p.legalName # <<>>
                    /\ ("taxId" \in DOMAIN p => p.taxId \in {<<"a">>, <<"A", " ">>})}

PayloadsKeys ==
  {p \in Payloads : "vatRegistered" \notin DOMAIN p /\ p.legalName # <<>>
                    /\ ("taxId" \in DOMAIN p => p.taxId \in {<<"a">>, <<"/">>})}

PayloadsPlain ==
  {p \in Payloads : "vatRegistered" \notin DOMAIN p /\ p.legalName # <<>>
                    /\ ("taxId" \in DOMAIN p => p.taxId \in {<<"a">>})}

IdInputs == {{}} \cup {{i} : i \in DocIds}

\* The local state of a web session: the bookings its listener has
\* delivered, the amounts typed into the quantity inputs, and the item
\* editor: whether it is open, the item being edited and the form.
NoUi == [bookings |-> EmptyColl, delta |-> EmptyColl,
         open |-> FALSE, editing |-> {}, form |-> <<>>]

\* What a write adds to the history of allocations and of written clientIds.
AllocatedAfter(d, e) ==
  IF e.counters # d.counters /\ "client" \in DOMAIN e.counters
    THEN Append(allocated, e.counters["client"].current_value) ELSE allocated

WrittenAfter(e) ==
  written \cup { e.clients[i].clientId :
                   i \in {j \in DOMAIN e.clients : "clientId" \in DOMAIN e.clients[j]} }

\* The store becomes e.
Store(e) ==
  /\ db' = e
  /\ usedIds' = usedIds \cup (DOMAIN e.clients)
  /\ allocated' = AllocatedAfter(db, e)
  /\ written' = WrittenAfter(e)

Init ==
  /\ db = [clients |-> EmptyColl, counters |-> EmptyColl, unique_taxIds |-> EmptyColl,
           bookings |-> EmptyColl, inventoryItems |-> EmptyColl,
           inventoryEvents |-> EmptyColl]
  /\ procs = [p \in Procs |-> Idle]
  /\ ui = [p \in Procs |-> NoUi]
  /\ usedIds = {}
  /\ allocated = <<>>
  /\ written = {}

\* A document ID from doc() / add() is one that was never handed out.
FreeIds(p) == DocIds \ (usedIds \cup {procs[q].newId : q \in Procs \ {p}})

NeedsId(op, editingId) == op \in {"upsertClient", "allocate"} /\ editingId = {}

CanRun(p, op, editingId) == NeedsId(op, editingId) => FreeIds(p) # {}

\* db.runTransaction(updateFunction): one run of the update function against
\* the store as it is now.  A throw ends the call; otherwise the reads and
\* the write batch wait for the commit.
RunTx(p, op, editingId, clean, attempts) ==
  LET newId == IF NeedsId(op, editingId)
                 THEN CHOOSE i \in FreeIds(p) : \A j \in FreeIds(p) : i <= j ELSE 0
      tx == CASE op = "upsertClient" -> UpsertClientTx(db, editingId, newId, clean)
              [] op = "deleteClient" -> DeleteClientTx(db, The(editingId))
              [] op = "allocate" -> AllocateTx(db)
              [] op = "applyDelta" -> ApplyDeltaTx(db, The(editingId), clean.delta)
      pr == [pc |-> "commit", op |-> op, editingId |-> editingId,
             payload |-> IF procs[p].pc = "commit" THEN procs[p].payload ELSE <<>>,
             clean |-> clean,
             newId |-> newId, tx |-> tx, invalidated |-> FALSE,
             attempts |-> attempts, result |-> "", note |-> ""]
  IN IF tx.err # "" THEN DoneTx(p, pr, tx, Surface(tx.err)) ELSE pr

\* The sequential caller's record also keeps the request as it was sent.
Sent(p, payload, pr) == IF p \in Sequential THEN [pr EXCEPT !.payload = payload] ELSE pr

\* upsertClient: authentication, cleaning, validation and the first run of the
\* update function.
UpsertClientWith(p, ids, payloads) ==
  /\ Ready(p)
  /\ \/ procs' = [procs EXCEPT ![p] = Done(p, "upsertClient", "unauthenticated")]
     \/ \E payload \in payloads :
          /\ validateClient(cleanClient(payload)) # {}
          /\ procs' = [procs EXCEPT ![p] =
               IF p \in Sequential
                 THEN [Done(p, "upsertClient", "invalid-argument")
                         EXCEPT !.clean = cleanClient(payload)]
                 ELSE Done(p, "upsertClient", "invalid-argument")]
     \/ \E id \in ids, payload \in payloads :
          /\ validateClient(cleanClient(payload)) = {}
          /\ CanRun(p, "upsertClient", id)
          /\ procs' = [procs EXCEPT ![p] =
                         Sent(p, payload,
                              RunTx(p, "upsertClient", id, cleanClient(payload), 0))]
  /\ UNCHANGED <<db, usedIds, allocated, written>>
  /\ UNCHANGED ui

UpsertClient(p) == UpsertClientWith(p, IdInputs, Payloads)

\* The second version of the transactional upsertClient: the same update
\* function behind two checks made one after the other, each with its own
\* error kind.
validateClientV0(c) ==
  IF c.legalName = <<>> THEN "invalid-argument"
  ELSE IF c.vatRegistered /\ c.taxId = <<>> THEN "failed-precondition"
  ELSE ""

UpsertClientV0(p) ==
  /\ Ready(p)
  /\ \/ procs' = [procs EXCEPT ![p] = Done(p, "upsertClient", "unauthenticated")]
     \/ \E payload \in Payloads :
          /\ validateClientV0(cleanClientV0(payload)) # ""
          /\ procs' = [procs EXCEPT ![p] =
               [Done(p, "upsertClient", validateClientV0(cleanClientV0(payload)))
                  EXCEPT !.clean = cleanClientV0(payload)]]
     \/ \E id \in IdInputs, payload \in Payloads :
          /\ validateClientV0(cleanClientV0(payload)) = ""
          /\ CanRun(p, "upsertClient", id)
          /\ procs' = [procs EXCEPT ![p] =
                         Sent(p, payload,
                              RunTx(p, "upsertClient", id, cleanClientV0(payload), 0))]
  /\ UNCHANGED <<db, usedIds, allocated, written>>
  /\ UNCHANGED ui

\* The commit applies the whole write batch, or nothing.
Committed(d, tx) == ApplyWrites(d, tx.writes)

\* The callers' records after p has written ws and gone on as pr.
After(p, pr, ws) ==
  [q \in Procs |-> IF q = p THEN pr ELSE Invalidate(procs[q], ws)]

DeleteClientLateAuth(p) ==
  /\ Ready(p)
  /\ \/ /\ procs' = [procs EXCEPT ![p] = Done(p, "deleteClient", "invalid-argument")]
        /\ UNCHANGED <<db, usedIds, allocated, written>>
     \/ \E id \in IdInputs \ {{}} :
          \/ /\ procs' = [procs EXCEPT ![p] = RunTx(p, "deleteClient", id, <<>>, 0)]
             /\ UNCHANGED <<db, usedIds, allocated, written>>
          \/ /\ DeleteClientTx(db, The(id)).err = ""
             /\ Store(Committed(db, DeleteClientTx(db, The(id))))
             /\ procs' = After(p, Done(p, "deleteClient", "unauthenticated"),
                               DeleteClientTx(db, The(id)).writes)
  /\ UNCHANGED ui

\* deleteClient: authentication, the id check and the first run of the update
\* function.
DeleteClient(p) ==
  /\ Ready(p)
  /\ \/ procs' = [procs EXCEPT ![p] = Done(p, "deleteClient", "unauthenticated")]
     \/ procs' = [procs EXCEPT ![p] = Done(p, "deleteClient", "invalid-argument")]
     \/ \E id \in IdInputs \ {{}} :
          procs' = [procs EXCEPT ![p] = RunTx(p, "deleteClient", id, <<>>, 0)]
  /\ UNCHANGED <<db, usedIds, allocated, written>>
  /\ UNCHANGED ui

\* The commit of a transaction whose reads are all unchanged.  The counter
\* transaction of the non-transactional create returns to its caller, which
\* goes on to add the record; the transaction of applyDelta returns to its
\* caller, which goes on to add the event.
TxCommit(p) ==
  /\ procs[p].pc = "commit"
  /\ ReadsValid(procs[p])
  /\ Store(Committed(db, procs[p].tx))
  /\ procs' = After(p, IF procs[p].op = "allocate"
                         THEN [procs[p] EXCEPT !.pc = "add", !.attempts = 0]
                       ELSE IF procs[p].op = "applyDelta"
                         THEN [procs[p] EXCEPT
                                 !.pc = "event", !.tx = NoTx,
                                 !.note = IF procs[p].tx.writes # <<>>
                                            THEN "adjusted" ELSE "missing"]
                         ELSE DoneTx(p, procs[p], procs[p].tx, "ok"),
                    procs[p].tx.writes)
  /\ UNCHANGED ui

TxRetryForever(p) ==
  /\ procs[p].pc = "commit"
  /\ ~ReadsValid(procs[p])
  /\ CanRun(p, procs[p].op, procs[p].editingId)
  /\ procs' = [procs EXCEPT ![p] =
       RunTx(p, procs[p].op, procs[p].editingId, procs[p].clean, procs[p].attempts)]
  /\ UNCHANGED <<db, usedIds, allocated, written>>
  /\ UNCHANGED ui

\* The commit of a transaction one of whose reads has changed: nothing is
\* written and the update function is run again, up to MaxAttempts attempts,
\* after which the call fails.
TxRetry(p) ==
  /\ procs[p].pc = "commit"
  /\ ~ReadsValid(procs[p])
  /\ CanRun(p, procs[p].op, procs[p].editingId)
  /\ procs' = [procs EXCEPT ![p] =
       IF procs[p].attempts + 1 >= MaxAttempts
         THEN DoneTx(p, procs[p], TxThrow(NoTx, "aborted"), Surface("aborted"))
         ELSE RunTx(p, procs[p].op, procs[p].editingId, procs[p].clean,
                    procs[p].attempts + 1)]
  /\ UNCHANGED <<db, usedIds, allocated, written>>
  /\ UNCHANGED ui

\* upsertClient of functions/src/index.ts: an edit is one merge write; a
\* create starts with the counter transaction.
UpsertClientV1With(p, ids, payloads) ==
  /\ Ready(p)
  /\ \/ /\ procs' = [procs EXCEPT ![p] = Done(p, "upsertClientV1", "unauthenticated")]
        /\ UNCHANGED <<db, usedIds, allocated, written>>
     \/ \E client \in payloads :
          /\ validateClientV1(client) # {}
          /\ procs' = [procs EXCEPT ![p] = Done(p, "upsertClientV1", "invalid-argument")]
          /\ UNCHANGED <<db, usedIds, allocated, written>>
     \/ \E id \in ids \ {{}}, client \in payloads :
          /\ validateClientV1(client) = {}
          /\ LET w == Write("merge", "clients", The(id), payloadV1(client))
             IN /\ Store(ApplyWrite(db, w))
                /\ procs' = After(p, DoneWrite(p, "upsertClientV1", "ok", id,
                                                payloadV1(client), "edit"), <<w>>)
     \/ \E client \in payloads :
          /\ {} \in ids
          /\ validateClientV1(client) = {}
          /\ CanRun(p, "allocate", {})
          /\ procs' = [procs EXCEPT ![p] =
                         RunTx(p, "allocate", {}, payloadV1(client), 0)]
          /\ UNCHANGED <<db, usedIds, allocated, written>>
  /\ UNCHANGED ui

\* save() of the web client: an edit is one updateDoc, which fails when the
\* record is gone; a create starts with the counter transaction.
SaveWith(p, ids, forms) ==
  /\ Ready(p)
  /\ \/ \E form \in forms :
          /\ toStr(Field(form, "legalName")) = <<>>
          /\ procs' = [procs EXCEPT ![p] = Done(p, "save", "invalid")]
          /\ UNCHANGED <<db, usedIds, allocated, written>>
     \/ \E id \in ids \ {{}}, form \in forms :
          /\ toStr(Field(form, "legalName")) # <<>>
          /\ IF The(id) \in DOMAIN clients
               THEN LET w == Write("update", "clients", The(id), payloadWeb(form))
                    IN /\ Store(ApplyWrite(db, w))
                       /\ procs' = After(p, [Done(p, "save", "ok")
                                               EXCEPT !.note = "edit"], <<w>>)
               ELSE /\ procs' = [procs EXCEPT ![p] =
                                   [Done(p, "save", "not-found") EXCEPT !.note = "edit"]]
                    /\ UNCHANGED <<db, usedIds, allocated, written>>
     \/ \E form \in forms :
          /\ {} \in ids
          /\ toStr(Field(form, "legalName")) # <<>>
          /\ CanRun(p, "allocate", {})
          /\ procs' = [procs EXCEPT ![p] =
                         RunTx(p, "allocate", {}, payloadWeb(form), 0)]
          /\ UNCHANGED <<db, usedIds, allocated, written>>
  /\ UNCHANGED ui

\* db.collection("clients").add({...payload, clientId}) / addDoc(...): the
\* second step of a non-transactional create.
AddClient(p) ==
  /\ procs[p].pc = "add"
  /\ LET w == Write("set", "clients", procs[p].newId,
                    Overlay([clientId |-> The(procs[p].tx.ret)], procs[p].clean))
     IN /\ Store(ApplyWrite(db, w))
        /\ procs' = After(p, [Done(p, "create", "ok") EXCEPT !.note = "create"], <<w>>)
  /\ UNCHANGED ui

\* The add is rejected by the store (unavailable, permission denied): the
\* call fails after its counter transaction has committed.
AddClientFails(p) ==
  /\ procs[p].pc = "add"
  /\ procs' = [procs EXCEPT ![p] = [Done(p, "create", "internal") EXCEPT !.note = "create"]]
  /\ usedIds' = usedIds \cup {procs[p].newId}
  /\ UNCHANGED <<db, allocated, written>>
  /\ UNCHANGED ui

\* deleteClient of functions/src/index.ts: one delete of the record.
DeleteClientV1(p) ==
  /\ Ready(p)
  /\ \/ /\ procs' = [procs EXCEPT ![p] = Done(p, "deleteClientV1", "unauthenticated")]
        /\ UNCHANGED <<db, usedIds, allocated, written>>
     \/ /\ procs' = [procs EXCEPT ![p] = Done(p, "deleteClientV1", "invalid-argument")]
        /\ UNCHANGED <<db, usedIds, allocated, written>>
     \/ \E id \in IdInputs \ {{}} :
          /\ LET w == Write("delete", "clients", The(id), <<>>)
             IN /\ Store(ApplyWrite(db, w))
                /\ procs' = After(p, DoneWrite(p, "deleteClientV1", "ok", id,
                                                <<>>, "delete"), <<w>>)
  /\ UNCHANGED ui

\* ------------------------------------------------------------------ bookings
\* The Bookings page of the web client (web/src/App.tsx).  Each session keeps
\* the bookings its listener delivered in ui[p].bookings and checks a save
\* against them; the write goes to the store afterwards.
BookIds == 1..MaxBookings

\* datetime-local values are fixed-width strings, compared as strings.
Times == { <<"0", "9">>, <<"1", "0">>, <<"1", "1">> }
ResourceInputs == {"", "r1", "r2"}
TitleInputs == { <<>>, <<"t">> }

BookingForms ==
  [title : TitleInputs, resourceId : ResourceInputs,
   start : Times \cup {<<>>}, end : Times \cup {<<>>}]

Digit(c) == CASE c = "0" -> 0 [] c = "1" -> 1 [] c = "9" -> 9

\* JavaScript's a < b on strings.
RECURSIVE StrLess(_, _)
StrLess(a, b) ==
  IF b = <<>> THEN FALSE
  ELSE IF a = <<>> THEN TRUE
  ELSE IF Head(a) = Head(b) THEN StrLess(Tail(a), Tail(b))
  ELSE Digit(Head(a)) < Digit(Head(b))

\* The forms for one resource: every interval, one form without a title and
\* one whose end is its start.
BookingFormsOneResource ==
  {f \in BookingForms :
     /\ f.resourceId = "r1" /\ f.start # <<>> /\ f.end # <<>>
     /\ \/ f.title # <<>> /\ StrLess(f.start, f.end)
        \/ f.start = f.end /\ f.end = <<"0", "9">>}

overlapsTouching(aStart, aEnd, bStart, bEnd) ==
  IF aStart = <<>> \/ aEnd = <<>> \/ bStart = <<>> \/ bEnd = <<>> THEN FALSE
  ELSE ~StrLess(bEnd, aStart) /\ ~StrLess(aEnd, bStart)

overlaps(aStart, aEnd, bStart, bEnd) ==
  IF aStart = <<>> \/ aEnd = <<>> \/ bStart = <<>> \/ bEnd = <<>> THEN FALSE
  ELSE StrLess(aStart, bEnd) /\ StrLess(bStart, aEnd)

\* payload of save(): the title trimmed, the other fields as typed.
bookingPayload(form) ==
  [title |-> toStr({form.title}), resourceId |-> form.resourceId,
   start |-> form.start, end |-> form.end]

hasConflictOtherResource(list, payload, editing) ==
  \E id \in DOMAIN list :
    /\ list[id].resourceId # payload.resourceId
    /\ {id} # editing
    /\ overlaps(payload.start, payload.end, list[id].start, list[id].end)

\* existing.some(...) of save(): a booking of the session's list on the same
\* resource, other than the one being edited, that overlaps the payload.
hasConflict(list, payload, editing) ==
  \E id \in DOMAIN list :
    /\ list[id].resourceId = payload.resourceId
    /\ {id} # editing
    /\ overlaps(payload.start, payload.end, list[id].start, list[id].end)

\* The write save() issues: updateDoc of the edited booking or addDoc.
BookingWrite(pr) ==
  IF pr.editingId # {}
    THEN Write("update", "bookings", The(pr.editingId), pr.clean)
    ELSE Write("set", "bookings", pr.newId, pr.clean)

\* The list a listener shows: the stored bookings with the session's own
\* pending write applied (a local write reaches the session's listeners at
\* once).
Listed(d, pr) ==
  IF pr.pc = "write" /\ (pr.editingId = {} \/ pr.editingId \subseteq DOMAIN d.bookings)
    THEN ApplyWrite(d, BookingWrite(pr)).bookings
    ELSE d.bookings

\* IDs of bookings stored, about to be added or still listed by a session.
FreeBookIds ==
  BookIds \ (DOMAIN db.bookings \cup {procs[q].newId : q \in Procs}
               \cup UNION {DOMAIN ui[q].bookings : q \in Procs})

\* What a session keeps of a finished save: the sequential caller keeps the
\* call it made, a concurrent one only the outcome.
DoneBooking(p, pr, r) ==
  IF p \in Sequential /\ r \in {"ok", "conflict", "failed"}
    THEN [pr EXCEPT !.pc = "done", !.result = r, !.newId = 0]
    ELSE Done(p, "saveBooking", r)

\* save() of the Bookings page up to the point where the write is issued.
SaveBookingWith(p, forms) ==
  /\ Ready(p)
  /\ \E form \in forms, editing \in {{}} \cup {{i} : i \in DOMAIN ui[p].bookings} :
       LET payload == bookingPayload(form)
           call == [Idle EXCEPT !.op = "saveBooking", !.editingId = editing,
                                !.clean = payload]
       IN IF payload.title = <<>> \/ payload.resourceId = "" \/ payload.start = <<>>
             \/ payload.end = <<>>
            THEN /\ procs' = [procs EXCEPT ![p] = DoneBooking(p, call, "required")]
                 /\ UNCHANGED ui
          ELSE IF ~StrLess(payload.start, payload.end)
            THEN /\ procs' = [procs EXCEPT ![p] = DoneBooking(p, call, "end-before-start")]
                 /\ UNCHANGED ui
          ELSE IF hasConflict(ui[p].bookings, payload, editing)
            THEN /\ procs' = [procs EXCEPT ![p] = DoneBooking(p, call, "conflict")]
                 /\ UNCHANGED ui
          ELSE /\ editing = {} => FreeBookIds # {}
               /\ LET pr == [call EXCEPT !.pc = "write",
                                         !.newId = IF editing = {}
                                                     THEN CHOOSE i \in FreeBookIds :
                                                            \A j \in FreeBookIds : i <= j
                                                     ELSE 0]
                  IN /\ procs' = [procs EXCEPT ![p] = pr]
                     /\ ui' = [ui EXCEPT ![p].bookings =
                                 ApplyWrite([bookings |-> ui[p].bookings],
                                            BookingWrite(pr)).bookings]
  /\ UNCHANGED <<db, usedIds, allocated, written>>

SaveBooking(p) == SaveBookingWith(p, BookingForms)

WriteBookingChecked(p) ==
  /\ procs[p].pc = "write"
  /\ procs[p].op = "saveBooking"
  /\ procs[p].editingId \subseteq DOMAIN db.bookings
  /\ IF hasConflict(db.bookings, procs[p].clean, procs[p].editingId)
       THEN /\ procs' = [procs EXCEPT ![p] = DoneBooking(p, procs[p], "conflict")]
            /\ ui' = [ui EXCEPT ![p].bookings = db.bookings]
            /\ UNCHANGED db
       ELSE /\ db' = ApplyWrite(db, BookingWrite(procs[p]))
            /\ procs' = After(p, DoneBooking(p, procs[p], "ok"), <<BookingWrite(procs[p])>>)
            /\ UNCHANGED ui
  /\ UNCHANGED <<usedIds, allocated, written>>

\* The store applies the write of a save; the save returns.
WriteBooking(p) ==
  /\ procs[p].pc = "write"
  /\ procs[p].op = "saveBooking"
  /\ procs[p].editingId \subseteq DOMAIN db.bookings
  /\ db' = ApplyWrite(db, BookingWrite(procs[p]))
  /\ procs' = After(p, DoneBooking(p, procs[p], "ok"), <<BookingWrite(procs[p])>>)
  /\ UNCHANGED <<usedIds, allocated, written, ui>>

\* The store rejects the write: the session's list drops the write and shows
\* the stored bookings, and save() shows the error.
WriteBookingFails(p) ==
  /\ procs[p].pc = "write"
  /\ procs[p].op = "saveBooking"
  /\ procs' = [procs EXCEPT ![p] = DoneBooking(p, procs[p], "failed")]
  /\ ui' = [ui EXCEPT ![p].bookings = db.bookings]
  /\ UNCHANGED <<db, usedIds, allocated, written>>

\* The onSnapshot listener of the Bookings page delivers the stored bookings.
BookingsSnapshot(p) ==
  /\ ui[p].bookings # Listed(db, procs[p])
  /\ ui' = [ui EXCEPT ![p].bookings = Listed(db, procs[p])]
  /\ UNCHANGED <<db, procs, usedIds, allocated, written>>

\* ------------------------------------------------------- inventory, actions
\* IDs of items not stored yet.
FreeItemIds == ItemIds \ DOMAIN db.inventoryItems
FreeEventIds == EventIds \ DOMAIN db.inventoryEvents

\* What a session keeps of a finished inventory call: of an adjustment, the
\* sequential session keeps the call it made, and every session the call that
\* did nothing.
DoneItem(p, pr, r) ==
  IF pr.op = "applyDelta" /\ (p \in Sequential \/ r = "noop")
    THEN [pr EXCEPT !.pc = "done", !.result = r, !.attempts = 0]
    ELSE Done(p, pr.op, r)

\* save() of the Inventory page: one updateDoc or addDoc, which the store
\* applies or rejects.  A new item gets one of the IDs newIds.
SaveItemWith(p, forms, newIds) ==
  /\ Ready(p)
  /\ \E form \in forms, editing \in {{}} \cup {{i} : i \in DOMAIN db.inventoryItems} :
       LET payload == itemPayload(form)
           call == [Idle EXCEPT !.op = "saveItem", !.editingId = editing,
                                !.clean = payload]
           w == IF editing # {}
                  THEN Write("update", "inventoryItems", The(editing), payload)
                  ELSE Write("set", "inventoryItems",
                             CHOOSE i \in FreeItemIds \cap newIds :
                               \A j \in FreeItemIds \cap newIds : i <= j,
                             payload)
       IN IF payload.name = <<>>
            THEN /\ procs' = [procs EXCEPT ![p] = DoneItem(p, call, "required")]
                 /\ UNCHANGED <<db, usedIds, allocated, written>>
            ELSE \/ /\ editing = {} => FreeItemIds \cap newIds # {}
                    /\ Store(ApplyWrite(db, w))
                    /\ procs' = After(p, DoneItem(p, call, "ok"), <<w>>)
                 \/ /\ procs' = [procs EXCEPT ![p] = DoneItem(p, call, "failed")]
                    /\ UNCHANGED <<db, usedIds, allocated, written>>
  /\ UNCHANGED ui

SaveItem(p) == SaveItemWith(p, ItemForms, ItemIds)

\* startAdd(): the editor opens on an empty form.
StartAdd(p) ==
  /\ Ready(p)
  /\ ui' = [ui EXCEPT ![p].open = TRUE, ![p].editing = {},
                       ![p].form = [name |-> <<>>, quantity |-> 0]]
  /\ ui' # ui
  /\ UNCHANGED <<db, procs, usedIds, allocated, written>>

\* startEdit(it): the editor opens on a copy of a listed item.
StartEdit(p) ==
  /\ Ready(p)
  /\ \E id \in DOMAIN db.inventoryItems :
       ui' = [ui EXCEPT ![p].open = TRUE,
                        ![p].editing = {Overlay([id |-> id], db.inventoryItems[id])},
                        ![p].form = db.inventoryItems[id]]
  /\ ui' # ui
  /\ UNCHANGED <<db, procs, usedIds, allocated, written>>

\* change(k, v): a field of the open form is typed over.
Change(p) ==
  /\ ui[p].open
  /\ Ready(p)
  /\ \/ \E v \in LegalInputs : ui' = [ui EXCEPT ![p].form.name = v]
     \/ \E v \in QuantityInputs : ui' = [ui EXCEPT ![p].form.quantity = v]
  /\ ui' # ui
  /\ UNCHANGED <<db, procs, usedIds, allocated, written>>

\* save() on the open editor: the form is written to the item being edited
\* or to a new item; the editor closes when the write succeeds.
SaveForm(p) ==
  /\ ui[p].open
  /\ Ready(p)
  /\ LET payload == itemPayload(ui[p].form)
         editing == {it.id : it \in ui[p].editing}
         call == [Idle EXCEPT !.op = "saveItem", !.editingId = editing,
                              !.clean = payload]
         w == IF editing # {}
                THEN Write("update", "inventoryItems", The(editing), payload)
                ELSE Write("set", "inventoryItems",
                           CHOOSE i \in FreeItemIds : \A j \in FreeItemIds : i <= j,
                           payload)
     IN IF payload.name = <<>>
          THEN /\ procs' = [procs EXCEPT ![p] = DoneItem(p, call, "required")]
               /\ UNCHANGED <<db, usedIds, allocated, written, ui>>
          ELSE \/ /\ editing = {} => FreeItemIds # {}
                  /\ Store(ApplyWrite(db, w))
                  /\ procs' = After(p, DoneItem(p, call, "ok"), <<w>>)
                  /\ ui' = [ui EXCEPT ![p].open = FALSE]
               \/ /\ procs' = [procs EXCEPT ![p] = DoneItem(p, call, "failed")]
                  /\ UNCHANGED <<db, usedIds, allocated, written, ui>>

\* onChange of an item's amount input.
SetDeltaWith(p, amounts) ==
  /\ \E itemId \in DOMAIN db.inventoryItems, v \in amounts :
       /\ Get([delta |-> ui[p].delta], "delta", itemId) # {v}
       /\ ui' = [ui EXCEPT ![p] = Put(ui[p], "delta", itemId, v)]
  /\ UNCHANGED <<db, procs, usedIds, allocated, written>>

SetDelta(p) == SetDeltaWith(p, DeltaInputs)

\* The adjustments under way.
Adjusting == {q \in Procs : procs[q].op = "applyDelta" /\ procs[q].pc \in {"commit", "event"}}

\* applyDelta(itemId, reason), for one of the item IDs ids, up to the first
\* run of the update function.  Adjustments start while the stored quantity
\* is within MaxQuantity of zero and the event log has room.
ApplyDeltaOn(p, ids) ==
  /\ Ready(p)
  /\ \E itemId \in ids :
       LET amt == Amount(ui[p].delta, itemId)
           clean == [itemId |-> itemId, delta |-> amt]
       IN IF skipDelta(amt)
            THEN procs' = [procs EXCEPT ![p] =
                   DoneItem(p, [Idle EXCEPT !.op = "applyDelta", !.editingId = {itemId},
                                            !.clean = clean], "noop")]
            ELSE /\ \A it \in Get(db, "inventoryItems", itemId) :
                      OrZero(Field(it, "quantity")) \in -MaxQuantity..MaxQuantity
                 /\ Cardinality(DOMAIN db.inventoryEvents) + Cardinality(Adjusting)
                      < MaxEvents
                 /\ procs' = [procs EXCEPT ![p] = RunTx(p, "applyDelta", {itemId}, clean, 0)]
  /\ UNCHANGED <<db, usedIds, allocated, written, ui>>

\* applyDelta from the row of a stored item.
ApplyDelta(p) == ApplyDeltaOn(p, DOMAIN db.inventoryItems)

\* An item document is deleted in the store by a writer other than this
\* page, which has no delete of its own; the update function of applyDelta
\* provides for it, and the page's row stays until the listener reports.
ItemRemoved ==
  /\ \E id \in DOMAIN db.inventoryItems :
       LET w == Write("delete", "inventoryItems", id, <<>>)
       IN /\ Store(ApplyWrite(db, w))
          /\ procs' = [q \in Procs |-> Invalidate(procs[q], <<w>>)]
  /\ UNCHANGED ui

\* addDoc(collection(db, "inventoryEvents"), ...) after the transaction, and
\* the reset of the amount input.
AddEvent(p) ==
  /\ procs[p].pc = "event"
  /\ LET w == Write("set", "inventoryEvents",
                    CHOOSE i \in FreeEventIds : \A j \in FreeEventIds : i <= j,
                    [itemId |-> procs[p].clean.itemId, delta |-> procs[p].clean.delta,
                     reason |-> "adjustment"])
     IN /\ Store(ApplyWrite(db, w))
        /\ procs' = After(p, DoneItem(p, procs[p], "ok"), <<w>>)
  /\ ui' = [ui EXCEPT ![p] = Put(ui[p], "delta", procs[p].clean.itemId, 0)]

\* The store rejects the event: applyDelta shows the error.
AddEventFails(p) ==
  /\ procs[p].pc = "event"
  /\ procs' = [procs EXCEPT ![p] = DoneItem(p, procs[p], "failed")]
  /\ UNCHANGED <<db, usedIds, allocated, written, ui>>

\* ----------------------------------------------------------- specifications
\* The transactional upsertClient and deleteClient, called by two concurrent
\* callers with one tax key in two spellings.
Next ==
  \E p \in Concurrent :
    \/ UpsertClientWith(p, IdInputs, PayloadsSpellings)
    \/ DeleteClient(p)
    \/ TxCommit(p)
    \/ TxRetry(p)

Spec == Init /\ [][Next]_vars

\* The same, with two tax keys.
NextKeys ==
  \E p \in Concurrent :
    \/ UpsertClientWith(p, IdInputs, PayloadsKeys)
    \/ DeleteClient(p)
    \/ TxCommit(p)
    \/ TxRetry(p)

SpecKeys == Init /\ [][NextKeys]_vars

\* The transactional upsertClient (both versions) and deleteClient called one
\* call at a time, with every payload.
NextSeq ==
  \E p \in Sequential :
    \/ UpsertClient(p)
    \/ UpsertClientV0(p)
    \/ DeleteClient(p)
    \/ TxCommit(p)

SpecSeq == Init /\ [][NextSeq]_vars

\* Concurrent creates through the three create paths.
NextCreate ==
  \E p \in Concurrent :
    \/ UpsertClientWith(p, {{}}, PayloadsPlain)
    \/ UpsertClientV1With(p, {{}}, PayloadsPlain)
    \/ SaveWith(p, {{}}, PayloadsPlain)
    \/ TxCommit(p)
    \/ TxRetry(p)
    \/ AddClient(p)
    \/ AddClientFails(p)

SpecCreate == Init /\ [][NextCreate]_vars

\* upsertClient / deleteClient of functions/src/index.ts and the web client's
\* save(), called by two concurrent callers.
NextV1 ==
  \E p \in Concurrent :
    \/ UpsertClientV1With(p, IdInputs, PayloadsPlain)
    \/ SaveWith(p, IdInputs, PayloadsPlain)
    \/ DeleteClientV1(p)
    \/ TxCommit(p)
    \/ TxRetry(p)
    \/ AddClient(p)
    \/ AddClientFails(p)

SpecV1 == Init /\ [][NextV1]_vars

\* upsertClient / deleteClient of functions/src/index.ts called one call at
\* a time, with every payload.
NextSeqV1 ==
  \E p \in Sequential :
    \/ UpsertClientV1With(p, IdInputs, Payloads)
    \/ DeleteClientV1(p)
    \/ TxCommit(p)
    \/ AddClient(p)
    \/ AddClientFails(p)

SpecSeqV1 == Init /\ [][NextSeqV1]_vars

\* The Bookings page in two concurrent sessions.
NextBook ==
  \E p \in Concurrent :
    \/ SaveBookingWith(p, BookingFormsOneResource)
    \/ WriteBooking(p)
    \/ WriteBookingFails(p)
    \/ BookingsSnapshot(p)

SpecBook == Init /\ [][NextBook]_vars

\* The Bookings page in one session, whose list follows its own writes.
NextBookSeq ==
  \E p \in Sequential :
    \/ SaveBooking(p)
    \/ WriteBooking(p)
    \/ WriteBookingFails(p)

SpecBookSeq == Init /\ [][NextBookSeq]_vars

\* The Inventory page in two concurrent sessions working on one item.
NextItems ==
  \E p \in Concurrent :
    \/ SaveItemWith(p, ItemFormsPlain, {1})
    \/ SetDelta(p)
    \/ ApplyDelta(p)
    \/ TxCommit(p)
    \/ TxRetry(p)
    \/ AddEvent(p)
    \/ AddEventFails(p)

SpecItems == Init /\ [][NextItems]_vars

\* The Inventory page in one session.
NextItemsSeq ==
  \E p \in Sequential :
    \/ SaveItem(p)
    \/ SetDelta(p)
    \/ ApplyDelta(p)
    \/ TxCommit(p)
    \/ AddEvent(p)
    \/ AddEventFails(p)

SpecItemsSeq == Init /\ [][NextItemsSeq]_vars

\* The transactional upsertClient called by two concurrent callers that
\* create clients while there is none and edit the first one, where the
\* transaction client goes on with every pending transaction: it commits it
\* or runs the update function again.
NextLive ==
  \E p \in Concurrent :
    \/ clients = EmptyColl /\ UpsertClientWith(p, {{}}, PayloadsPlain)
    \/ UpsertClientWith(p, {{1}}, PayloadsPlain)
    \/ TxCommit(p)
    \/ TxRetry(p)

SpecLive ==
  /\ Init /\ [][NextLive]_vars
  /\ \A p \in Concurrent : WF_vars(TxCommit(p) \/ TxRetry(p))

\* The transactional upsertClient called by two concurrent callers with one
\* tax key in two spellings, one of them the caller whose calls are recorded.
NextPair ==
  \E p \in {"p0", "p1"} :
    \/ UpsertClientWith(p, IdInputs, PayloadsSpellings)
    \/ TxCommit(p)
    \/ TxRetry(p)

SpecPair == Init /\ [][NextPair]_vars

\* The Inventory page in two sessions: one works with the item editor, on
\* the one item it adds, the other adjusts quantities.
NextEdit ==
  \/ \E p \in {"p0"} :
       \/ db.inventoryItems = EmptyColl /\ StartAdd(p)
       \/ StartEdit(p)
       \/ Change(p)
       \/ SaveForm(p)
  \/ \E p \in {"p1"} :
       \/ SetDeltaWith(p, {-1, 1})
       \/ ApplyDelta(p)
       \/ TxCommit(p)
       \/ TxRetry(p)
       \/ AddEvent(p)
       \/ AddEventFails(p)

SpecEdit == Init /\ [][NextEdit]_vars

\* The Inventory page in one session that adds one item and adjusts it, in
\* a store where the item is deleted once an amount has been typed for it.
NextRemoved ==
  \/ \E p \in Sequential :
       \/ /\ db.inventoryItems = EmptyColl /\ ui[p].delta = EmptyColl
          /\ SaveItemWith(p, ItemFormsPlain, {1})
       \/ SetDelta(p)
       \/ ApplyDeltaOn(p, ItemIds)
       \/ TxCommit(p)
       \/ TxRetry(p)
       \/ AddEvent(p)
       \/ AddEventFails(p)
  \/ (\E q \in Sequential : ui[q].delta # EmptyColl) /\ ItemRemoved

SpecRemoved == Init /\ [][NextRemoved]_vars

\* ------------------------------------------------------------- properties
\* The normalized tax ID as the specification defines it: trimmed,
\* upper-cased, "/" replaced by "_".
RECURSIVE Strip(_)
Strip(s) ==
  IF s = <<>> THEN s
  ELSE IF Head(s) = " " THEN Strip(Tail(s))
  ELSE IF s[Len(s)] = " " THEN Strip(SubSeq(s, 1, Len(s) - 1))
  ELSE s

NormChar(c) ==
  CASE c = "a" -> "A" [] c = "n" -> "N" [] c = "/" -> "_" [] OTHER -> c

Normalized(s) == [i \in 1..Len(Strip(s)) |-> NormChar(Strip(s)[i])]

TaxKeyOf(rec) == IF "taxId" \in DOMAIN rec THEN Normalized(rec.taxId) ELSE <<>>

Numbered == {i \in DOMAIN clients : "clientId" \in DOMAIN clients[i]}

\* The client record a transaction read, and the tax key it had.
ReadClient(pr) == {r.snap : r \in {x \in pr.tx.reads : x.coll = "clients"}}
PrevKey(pr) == TaxKeyOf(The(The(ReadClient(pr))))
NewKey(pr) == Normalized(pr.clean.taxId)

\* p commits an edit in this step.
CommitsEdit(p) ==
  /\ procs[p].pc = "commit" /\ procs[p].op = "upsertClient"
  /\ procs[p].editingId # {}
  /\ procs'[p].pc = "done" /\ procs'[p].result = "ok"

\* C1: no two client records carry the same clientId, whatever the
\* interleaving of concurrent creates through the three create paths.
C1_UniqueClientIds ==
  \A i, j \in Numbered : i # j => clients[i].clientId # clients[j].clientId

\* Two creates by concurrent callers have both written their record.
C1_Witness ==
  /\ Cardinality(Numbered) >= 2
  /\ \A p \in Concurrent : procs[p].pc = "done" /\ procs[p].result = "ok"
                           /\ procs[p].note = "create"

\* C2: a non-empty normalized tax ID is the normalized tax ID of at most one
\* client record.
C2_OneClientPerTaxKey ==
  \A i, j \in DOMAIN clients :
    (i # j /\ TaxKeyOf(clients[i]) # <<>>) => TaxKeyOf(clients[i]) # TaxKeyOf(clients[j])

\* A call was refused for its tax ID while one client holds the key and
\* another client exists.
C2_Witness ==
  /\ \E p \in Concurrent : procs[p].result = "already-exists"
  /\ \E i, j \in DOMAIN clients : i # j /\ TaxKeyOf(clients[i]) # <<>>

\* C3: a create with, or an edit of another client to, a tax ID whose
\* normalized form is that of an existing client's tax ID fails with
\* already-exists and leaves the store as it was.
C3_ConflictRejected ==
  [][ \A p \in Sequential :
        ( /\ Ready(p)
          /\ procs'[p] # procs[p]
          /\ procs'[p].op = "upsertClient"
          /\ procs'[p].tx # NoTx
          /\ procs'[p].editingId \subseteq DOMAIN clients
          /\ NewKey(procs'[p]) # <<>>
          /\ \E j \in DOMAIN clients \ procs'[p].editingId :
               TaxKeyOf(clients[j]) = NewKey(procs'[p]) )
        => ( /\ procs'[p].pc = "done"
             /\ procs'[p].result = "already-exists"
             /\ db' = db ) ]_vars

\* C4: the uniqueness index and the client records agree: every entry is
\* owned by an existing client whose tax ID normalizes to the entry's key,
\* and every client with a non-empty normalized tax ID owns the entry for it.
C4_IndexAgrees ==
  /\ \A k \in DOMAIN unique_taxIds :
       /\ unique_taxIds[k].clientId \in DOMAIN clients
       /\ TaxKeyOf(clients[unique_taxIds[k].clientId]) = k
  /\ \A i \in DOMAIN clients :
       TaxKeyOf(clients[i]) # <<>> =>
         /\ TaxKeyOf(clients[i]) \in DOMAIN unique_taxIds
         /\ unique_taxIds[TaxKeyOf(clients[i])].clientId = i

\* Two clients hold the two tax keys, one of them after giving up the other.
C4_Witness ==
  /\ Cardinality(DOMAIN unique_taxIds) = 2
  /\ \E p \in Concurrent : procs[p].result = "ok" /\ procs[p].note = "edit-rekey"

\* C5: the counter changes only in a step that also commits a client record
\* carrying the new number, and a call that fails leaves the counter as it was.
C5_NoNumberWithoutRecord ==
  [][ /\ counters' # counters =>
           \E i \in DOMAIN clients' \ DOMAIN clients :
             clients'[i].clientId = ClientIdOf(counters'["client"].current_value)
      /\ \A p \in Concurrent :
           (procs'[p] # procs[p] /\ procs'[p].pc = "done" /\ procs'[p].result # "ok")
             => counters' = counters ]_vars

\* A create has failed after the counter was first written.
C5_Witness ==
  /\ allocated # <<>>
  /\ \E p \in Concurrent : /\ procs[p].pc = "done" /\ procs[p].note = "create"
                           /\ procs[p].result \in {"internal", "already-exists"}

\* C6: in the create path of functions/src/index.ts and of save(), the
\* counter is at n only when a client record CL-n has been written.
C6_AllocationAtomic ==
  "client" \in DOMAIN counters =>
     ClientIdOf(counters["client"].current_value) \in written

\* C7: the counter never decreases, every allocation is greater than all
\* earlier ones, and the numbers of the n records created are exactly
\* 100001 .. 100000+n.
C7_NoGaps ==
  /\ [](\A i, j \in 1..Len(allocated) : i < j => allocated[i] < allocated[j])
  /\ [](written = {ClientIdOf(Base + i) : i \in 1..Cardinality(written)})
  /\ [][ "client" \in DOMAIN counters =>
           /\ "client" \in DOMAIN counters'
           /\ counters'["client"].current_value >= counters["client"].current_value ]_vars

\* C8: every client record has a clientId from its creation on, and a record
\* keeps its clientId as long as it exists.
C8_ClientIdImmutable ==
  /\ [](Numbered = DOMAIN clients)
  /\ [][ \A i \in DOMAIN clients \cap DOMAIN clients' :
           Field(clients'[i], "clientId") = Field(clients[i], "clientId") ]_vars

\* An edit has been committed on a record that exists.
C8_Witness ==
  /\ DOMAIN clients # {}
  /\ \E p \in Concurrent : /\ procs[p].pc = "done" /\ procs[p].result = "ok"
                           /\ procs[p].note \in {"edit", "edit-samekey", "edit-rekey"}

\* C9: the commit of an edit that changes the tax key from A to B, both
\* non-empty, leaves no index entry for A and an entry for B owned by the
\* client, whose clientId is unchanged.
C9_Rekey ==
  [][ \A p \in Concurrent :
        ( /\ CommitsEdit(p)
          /\ PrevKey(procs[p]) # <<>> /\ NewKey(procs[p]) # <<>>
          /\ PrevKey(procs[p]) # NewKey(procs[p]) )
        => LET id == The(procs[p].editingId)
           IN /\ PrevKey(procs[p]) \notin DOMAIN unique_taxIds'
              /\ NewKey(procs[p]) \in DOMAIN unique_taxIds'
              /\ unique_taxIds'[NewKey(procs[p])].clientId = id
              /\ id \in DOMAIN clients'
              /\ Field(clients'[id], "clientId") = Field(clients[id], "clientId") ]_vars

\* An edit that moved a client from one tax key to the other has committed.
C9_Witness ==
  \E p \in Concurrent : /\ procs[p].pc = "done" /\ procs[p].result = "ok"
                        /\ procs[p].note = "edit-rekey"

\* C10: an edit whose new tax key equals the previous one stages no write
\* to the index, and its commit leaves the index as it was.
C10_NoIndexWrites ==
  [][ \A p \in Concurrent :
        (CommitsEdit(p) /\ PrevKey(procs[p]) = NewKey(procs[p]))
        => /\ \A n \in 1..Len(procs[p].tx.writes) :
                procs[p].tx.writes[n].coll # "unique_taxIds"
           /\ unique_taxIds' = unique_taxIds ]_vars

\* An edit that kept a non-empty tax key has committed.
C10_Witness ==
  \E p \in Concurrent : /\ procs[p].pc = "done" /\ procs[p].result = "ok"
                        /\ procs[p].note = "edit-samekey"

\* C11: the commit of a delete leaves neither the client record nor the index
\* entry of its tax key, and a create with the tax ID of the client just
\* deleted goes through.
C11_DeleteThenCreate ==
  [][ \A p \in Sequential :
        /\ ( /\ procs[p].pc = "commit" /\ procs[p].op = "deleteClient"
             /\ procs'[p].pc = "done" /\ procs'[p].result = "ok" )
           => /\ The(procs[p].editingId) \notin DOMAIN clients'
              /\ PrevKey(procs[p]) \notin DOMAIN unique_taxIds'
        /\ ( /\ procs[p].pc = "done" /\ procs[p].op = "deleteClient"
             /\ procs[p].result = "ok"
             /\ PrevKey(procs[p]) # <<>>
             /\ procs'[p] # procs[p]
             /\ procs'[p].op = "upsertClient"
             /\ procs'[p].editingId = {}
             /\ procs'[p].tx # NoTx
             /\ NewKey(procs'[p]) = PrevKey(procs[p]) )
           => procs'[p].pc = "commit" ]_vars

\* C12: an authenticated upsertClient whose cleaned request has vatRegistered
\* true and an empty taxId fails with failed-precondition and writes nothing,
\* whatever its other fields.
C12_VatNeedsTaxId ==
  [][ \A p \in Sequential :
        ( /\ Ready(p)
          /\ procs'[p] # procs[p]
          /\ procs'[p].op = "upsertClient"
          /\ procs'[p].clean # <<>>
          /\ procs'[p].clean.vatRegistered
          /\ procs'[p].clean.taxId = <<>> )
        => ( /\ procs'[p].pc = "done"
             /\ procs'[p].result = "failed-precondition"
             /\ db' = db ) ]_vars

\* C13: an upsertClient call whose id names no client record fails with
\* not-found and leaves records, index and counter as they were.
C13_EditNotFound ==
  [][ \A p \in Sequential :
        ( /\ Ready(p)
          /\ procs'[p] # procs[p]
          /\ procs'[p].op \in {"upsertClient", "upsertClientV1"}
          /\ procs'[p].clean # <<>>
          /\ procs'[p].editingId # {}
          /\ ~(procs'[p].editingId \subseteq DOMAIN clients) )
        => ( /\ procs'[p].pc = "done"
             /\ procs'[p].result = "not-found"
             /\ db' = db ) ]_vars

\* C14: the commit of an edit leaves every stored field the request omitted
\* as it was, and an edit whose request omits taxId leaves the index as it was.
C14_OmittedFieldsKept ==
  [][ \A p \in Sequential :
        CommitsEdit(p) =>
          LET id == The(procs[p].editingId)
          IN /\ \A f \in {"legalName", "taxId", "vatRegistered"} \ DOMAIN procs[p].payload :
                  Field(clients'[id], f) = Field(clients[id], f)
             /\ "taxId" \notin DOMAIN procs[p].payload => unique_taxIds' = unique_taxIds ]_vars

\* The instant a time string denotes.
TimeVal(s) == 10 * Digit(s[1]) + Digit(s[2])

\* Two bookings of one resource whose [start, end) intervals overlap.
Clash(a, b) ==
  /\ a.resourceId = b.resourceId
  /\ TimeVal(a.start) < TimeVal(b.end)
  /\ TimeVal(b.start) < TimeVal(a.end)

NoOverlap(list) ==
  \A i \in DOMAIN list : \A j \in DOMAIN list \ {i} : ~Clash(list[i], list[j])

\* C15: two concurrent saves of overlapping bookings of one resource can both
\* pass the conflict check and both commit.  A save that passed the check
\* against its session's list is committed as issued unless the store rejects
\* the write, whatever is stored by then, so that two stored bookings of one
\* resource can overlap.
C15_StaleCheckCommits ==
  [][ \A p \in Concurrent :
        (/\ procs[p].pc = "write" /\ procs[p].op = "saveBooking"
         /\ procs'[p].pc = "done" /\ procs'[p].result # "failed")
        => /\ procs'[p].result = "ok"
           /\ BookingWrite(procs[p]).key \in DOMAIN db'.bookings
           /\ db'.bookings[BookingWrite(procs[p]).key] = procs[p].clean ]_vars

\* Both sessions' saves returned without an error and two stored bookings
\* overlap.
C15_Witness ==
  /\ \A p \in Concurrent : procs[p].pc = "done" /\ procs[p].result = "ok"
  /\ ~NoOverlap(db.bookings)

\* C16: when booking saves run one at a time, each checked against a list
\* that holds every stored booking, no two stored bookings of one resource
\* have overlapping [start, end) intervals, after any sequence of creates and
\* edits.
C16_NoOverlapSequential ==
  /\ NoOverlap(db.bookings)
  /\ \A p \in Sequential :
       \A id \in DOMAIN db.bookings :
         id \in DOMAIN ui[p].bookings
         /\ (procs[p].pc # "write" => ui[p].bookings[id] = db.bookings[id])

\* An edit was saved and two bookings of one resource are stored.
C16_Witness ==
  /\ \E p \in Sequential :
       procs[p].pc = "done" /\ procs[p].result = "ok" /\ procs[p].editingId # {}
  /\ \E i \in DOMAIN db.bookings : \E j \in DOMAIN db.bookings \ {i} :
       db.bookings[i].resourceId = db.bookings[j].resourceId

\* C17: the conflict check of a save answers true exactly when some booking
\* of the session's list with another ID, on the payload's resource, has
\* s1 < e2 and e1 > s2 against the payload's interval; adjacent intervals do
\* not conflict and the edited booking never conflicts with itself.
C17_ConflictExactly ==
  [][ \A p \in Sequential :
        (/\ Ready(p) /\ procs'[p] # procs[p] /\ procs'[p].op = "saveBooking"
         /\ (procs'[p].pc = "write" \/ procs'[p].result = "conflict"))
        => (procs'[p].result = "conflict"
            <=> \E id \in DOMAIN ui[p].bookings :
                  /\ {id} # procs'[p].editingId
                  /\ Clash(procs'[p].clean, ui[p].bookings[id])) ]_vars

\* An edit was refused because of another booking of the resource.
C17_Witness ==
  \E p \in Sequential :
    /\ procs[p].pc = "done" /\ procs[p].result = "conflict" /\ procs[p].editingId # {}
    /\ \E id \in DOMAIN ui[p].bookings \ procs[p].editingId :
         Clash(procs[p].clean, ui[p].bookings[id])
    /\ \E id \in procs[p].editingId :
         id \in DOMAIN ui[p].bookings /\ Clash(procs[p].clean, ui[p].bookings[id])

\* The quantity of a stored item, a missing one read as 0.
QuantityOf(item) == IF "quantity" \in DOMAIN item THEN item.quantity ELSE 0

Typed(p, itemId) == Get([delta |-> ui[p].delta], "delta", itemId)

\* C19: an adjustment whose delta is 0 or NaN (or was never typed) leaves the
\* quantity and the event log unchanged: the call returns at once and the
\* store stays as it is.
C19_ZeroOrNaNDoesNothing ==
  [][ \A p \in Concurrent :
        (/\ Ready(p) /\ procs'[p] # procs[p] /\ procs'[p].op = "applyDelta"
         /\ Typed(p, procs'[p].clean.itemId) \subseteq {0, NaN})
        => (db' = db /\ procs'[p].pc = "done" /\ procs'[p].result = "noop") ]_vars

\* An adjustment by NaN has returned, with an adjusted item and its event in
\* the store.
C19_Witness ==
  \E p \in Concurrent :
    /\ procs[p].pc = "done" /\ procs[p].result = "noop"
    /\ Typed(p, procs[p].clean.itemId) = {NaN}
    /\ db.inventoryEvents # EmptyColl

\* C20: the event log is append-only.  No step changes or removes an event,
\* and an adjustment that committed a quantity change has, when it returns,
\* appended exactly one event, which carries its item ID and its delta.
C20_OneEventPerAdjustment ==
  [][ /\ \A e \in DOMAIN db.inventoryEvents :
           e \in DOMAIN db'.inventoryEvents
           /\ db'.inventoryEvents[e] = db.inventoryEvents[e]
      /\ \A p \in Sequential :
           (/\ procs[p].pc = "event" /\ procs[p].note = "adjusted"
            /\ procs'[p].pc = "done")
           => \E e \in DOMAIN db'.inventoryEvents \ DOMAIN db.inventoryEvents :
                /\ DOMAIN db'.inventoryEvents = DOMAIN db.inventoryEvents \cup {e}
                /\ db'.inventoryEvents[e].itemId = procs[p].clean.itemId
                /\ db'.inventoryEvents[e].delta = procs[p].clean.delta ]_vars

\* A create without a tax ID that passes validation.
PlainCreate(pr) ==
  /\ pr.op = "upsertClient" /\ pr.editingId = {} /\ pr.clean # <<>>
  /\ pr.clean.taxId = <<>> /\ validateClient(pr.clean) = {}

C22_UnauthenticatedChangesNothing ==
  [][ \A p \in Sequential :
        (procs'[p] # procs[p] /\ procs'[p].result = "unauthenticated")
        => /\ Ready(p)
           /\ procs'[p].pc = "done"
           /\ procs'[p].op \in {"upsertClient", "deleteClient"}
           /\ procs'[p].tx = NoTx
           /\ db' = db ]_vars

\* An unauthenticated deleteClient has returned and the store holds a client
\* with its index entry and the counter.
C22_Witness ==
  /\ \E p \in Sequential :
       procs[p].pc = "done" /\ procs[p].result = "unauthenticated"
       /\ procs[p].op = "deleteClient"
  /\ clients # EmptyColl /\ unique_taxIds # EmptyColl /\ counters # EmptyColl

\* C23: deleteClient with an id that names no client record fails with
\* not-found and changes no record and no index entry.
C23_DeleteNotFound ==
  [][ \A p \in Sequential :
        (/\ Ready(p) /\ procs'[p] # procs[p]
         /\ procs'[p].op \in {"deleteClient", "deleteClientV1"}
         /\ procs'[p].editingId # {}
         /\ ~(procs'[p].editingId \subseteq DOMAIN clients))
        => (procs'[p].pc = "done" /\ procs'[p].result = "not-found" /\ db' = db) ]_vars

\* C24: after any sequence of upsertClient calls every stored client record
\* with vatRegistered true has a non-empty tax ID.
C24_VatHasTaxId ==
  \A i \in DOMAIN clients :
    Field(clients[i], "vatRegistered") = {TRUE}
    => ("taxId" \in DOMAIN clients[i] /\ Strip(clients[i].taxId) # <<>>)

\* An upsertClient has stored a VAT-registered client.
C24_Witness ==
  /\ \E p \in Sequential :
       procs[p].pc = "done" /\ procs[p].result = "ok" /\ procs[p].op = "upsertClient"
       /\ procs[p].clean.vatRegistered
  /\ \E i \in DOMAIN clients : Field(clients[i], "vatRegistered") = {TRUE}
  /\ \E i \in DOMAIN clients : Field(clients[i], "vatRegistered") = {FALSE}

C26_ReadsBeforeWrites ==
  \A p \in Sequential :
    procs[p].op \in {"upsertClient", "deleteClient"} => procs[p].tx.err # "read-after-write"

\* A create with a non-empty normalized tax ID.
KeyedCreate(pr) ==
  /\ pr.op = "upsertClient" /\ pr.editingId = {} /\ pr.clean # <<>>
  /\ NewKey(pr) # <<>>

\* C27: of two concurrent creates with the same non-empty normalized tax ID
\* exactly one commits a record and the index entry, and the other fails
\* with already-exists without a record and without advancing the counter.
\* A create with a tax key that ends without success, its retries not
\* exhausted, ends as already-exists, with the key's entry in the index and
\* the store as it was; one that commits adds one record, the entry for its
\* key, which was not there, and one to the counter.
C27_OneOfTwoCreates ==
  [][ \A p \in Sequential :
        /\ (/\ procs'[p] # procs[p] /\ KeyedCreate(procs'[p])
            /\ procs'[p].pc = "done" /\ procs'[p].result # "ok"
            /\ procs'[p].tx.err # "aborted")
           => /\ procs'[p].result = "already-exists"
              /\ NewKey(procs'[p]) \in DOMAIN unique_taxIds
              /\ db' = db
        /\ (/\ procs[p].pc = "commit" /\ KeyedCreate(procs[p])
            /\ procs'[p].pc = "done" /\ procs'[p].result = "ok")
           => /\ NewKey(procs[p]) \notin DOMAIN unique_taxIds
              /\ DOMAIN unique_taxIds' = DOMAIN unique_taxIds \cup {NewKey(procs[p])}
              /\ DOMAIN clients' = DOMAIN clients \cup {procs[p].newId} ]_vars

\* C28: a full-record edit of an item that does not change the quantity
\* shown in the form leaves the stored quantity as it is, whatever
\* adjustments were committed since the editor was opened.
C28_EditKeepsQuantity ==
  [][ \A p \in Sequential :
        (/\ ui[p].open /\ ~ui'[p].open
         /\ \E it \in ui[p].editing :
              /\ ui[p].form.quantity = it.quantity
              /\ it.id \in DOMAIN db.inventoryItems)
        => \A it \in ui[p].editing :
             db'.inventoryItems[it.id].quantity = db.inventoryItems[it.id].quantity ]_vars

\* C29: a quantity adjustment on an item ID that names no stored item
\* changes nothing: the transaction that found no item writes nothing, and
\* the call ends without an event appended to the log.
C29_MissingItemNoChange ==
  [][ \A p \in Sequential :
        /\ (procs[p].pc = "commit" /\ procs'[p].pc = "event" /\ procs'[p].note = "missing")
           => db' = db
        /\ (procs[p].pc = "event" /\ procs[p].note = "missing" /\ procs'[p].pc = "done")
           => db' = db ]_vars

\* C30: the commit of an edit that takes a client's tax ID from a non-empty
\* value to empty removes the index entry of the old key and adds none, and
\* the next call, a create or an edit of another client with that tax key,
\* is not refused.
C30_ClearedKeyIsFree ==
  [][ \A p \in Sequential :
        /\ ( /\ CommitsEdit(p)
             /\ PrevKey(procs[p]) # <<>> /\ NewKey(procs[p]) = <<>> )
           => DOMAIN unique_taxIds' = DOMAIN unique_taxIds \ {PrevKey(procs[p])}
        /\ ( /\ procs[p].pc = "done" /\ procs[p].op = "upsertClient"
             /\ procs[p].editingId # {} /\ procs[p].result = "ok"
             /\ PrevKey(procs[p]) # <<>> /\ NewKey(procs[p]) = <<>>
             /\ procs'[p] # procs[p]
             /\ procs'[p].op = "upsertClient"
             /\ procs'[p].tx # NoTx
             /\ procs'[p].editingId # procs[p].editingId
             /\ procs'[p].editingId \subseteq DOMAIN clients
             /\ NewKey(procs'[p]) = PrevKey(procs[p]) )
           => procs'[p].pc = "commit" ]_vars

====
